---- MODULE Spec2Model ----
(***************************************************************************)
(* Model of lib/spack/spack/version.py: Version, _VersionEndpoint,         *)
(* VersionRange, VersionList and the parsing entry point ver().            *)
(*                                                                         *)
(* Python values are tagged records: a Version is                          *)
(*   [type |-> "Version", string, version, separators],                    *)
(* a VersionRange is                                                       *)
(*   [type |-> "VersionRange", start, end, includes_left_endpoint,         *)
(*    includes_right_endpoint],                                            *)
(* a VersionList is [type |-> "VersionList", versions], None is            *)
(* [type |-> "None"] and a raised exception is [type |-> "error", name].   *)
(* A Python str is a sequence of one-character strings.  A segment of      *)
(* Version.version is [isint, n, s]: the int n, or the str s.              *)
(***************************************************************************)
EXTENDS Integers, Sequences, FiniteSets, TLC

\* ------------------------------------------------------------------------
\* Characters and strings
\* ------------------------------------------------------------------------

\* The characters matched by [0-9], in code order.
Digits == <<"0", "1", "2", "3", "4", "5", "6", "7", "8", "9">>

\* The characters matched by [a-zA-Z], in code order (str comparison order).
Letters ==
    <<"A", "B", "C", "D", "E", "F", "G", "H", "I", "J", "K", "L", "M",
      "N", "O", "P", "Q", "R", "S", "T", "U", "V", "W", "X", "Y", "Z",
      "a", "b", "c", "d", "e", "f", "g", "h", "i", "j", "k", "l", "m",
      "n", "o", "p", "q", "r", "s", "t", "u", "v", "w", "x", "y", "z">>

Range(f) == {f[i] : i \in DOMAIN f}

IsDigit(c) == c \in Range(Digits)

IsLetter(c) == c \in Range(Letters)

\* VALID_VERSION = r'[A-Za-z0-9_\.\*\-]'
VALID_VERSION == Range(Letters) \cup Range(Digits) \cup {"_", ".", "*", "-"}

DigitValue(c) == (CHOOSE i \in DOMAIN Digits : Digits[i] = c) - 1

LetterRank(c) == CHOOSE i \in DOMAIN Letters : Letters[i] = c

\* Python's str < str on alphabetic strings: lexicographic by code point,
\* a proper prefix being the smaller.
RECURSIVE StrLess(_, _)
StrLess(a, b) ==
    IF b = <<>> THEN FALSE
    ELSE IF a = <<>> THEN TRUE
    ELSE IF a[1] = b[1] THEN StrLess(Tail(a), Tail(b))
    ELSE LetterRank(a[1]) < LetterRank(b[1])

\* int(string) on a run of digits.
RECURSIVE IntOfDigits(_)
IntOfDigits(s) ==
    IF s = <<>> THEN 0
    ELSE IntOfDigits(SubSeq(s, 1, Len(s) - 1)) * 10 + DigitValue(s[Len(s)])

\* str(n) for a non-negative int.
RECURSIVE StrOfInt(_)
StrOfInt(n) ==
    IF n < 10 THEN <<Digits[n + 1]>>
    ELSE StrOfInt(n \div 10) \o <<Digits[(n % 10) + 1]>>

IntSeg(n) == [isint |-> TRUE, n |-> n, s |-> <<>>]

StrSeg(s) == [isint |-> FALSE, n |-> 0, s |-> s]

\* int_if_int on a segment matched by [a-zA-Z]+|[0-9]+ .
int_if_int(string) ==
    IF \A i \in DOMAIN string : IsDigit(string[i])
    THEN IntSeg(IntOfDigits(string))
    ELSE StrSeg(string)

\* str(token) for a segment.
StrOfSeg(seg) == IF seg.isint THEN StrOfInt(seg.n) ELSE seg.s

\* str.replace(old, new) for a one-character old.
RECURSIVE ReplaceChar(_, _, _)
ReplaceChar(s, old, new) ==
    IF s = <<>> THEN <<>>
    ELSE (IF s[1] = old THEN new ELSE <<s[1]>>) \o ReplaceChar(Tail(s), old, new)

\* str.strip(): whitespace removed at both ends.
RECURSIVE Strip(_)
Strip(s) ==
    IF s = <<>> THEN s
    ELSE IF s[1] = " " THEN Strip(Tail(s))
    ELSE IF s[Len(s)] = " " THEN Strip(SubSeq(s, 1, Len(s) - 1))
    ELSE s

\* ------------------------------------------------------------------------
\* Values
\* ------------------------------------------------------------------------

None == [type |-> "None"]

Raise(name) == [type |-> "error", name |-> name]

IsError(x) == x.type = "error"

\* A str returned by a method that may also raise.
PyStr(chars) == [type |-> "str", value |-> chars]

\* infinity_versions = ['develop', 'main', 'master', 'head', 'trunk']
infinity_versions ==
    << <<"d", "e", "v", "e", "l", "o", "p">>,
       <<"m", "a", "i", "n">>,
       <<"m", "a", "s", "t", "e", "r">>,
       <<"h", "e", "a", "d">>,
       <<"t", "r", "u", "n", "k">> >>

\* ------------------------------------------------------------------------
\* Version
\* ------------------------------------------------------------------------

CharClass(c) == IF IsDigit(c) THEN "digit" ELSE IF IsLetter(c) THEN "alpha" ELSE "sep"

\* Length of the maximal run at the head of s of characters of one class.
RunLen(s) ==
    CHOOSE k \in 1..Len(s) :
        /\ \A i \in 1..k : CharClass(s[i]) = CharClass(s[1])
        /\ k = Len(s) \/ CharClass(s[k + 1]) # CharClass(s[1])

\* re.findall(r'[a-zA-Z]+|[0-9]+', string)
RECURSIVE findall_segments(_)
findall_segments(s) ==
    IF s = <<>> THEN <<>>
    ELSE LET k == RunLen(s)
             rest == findall_segments(SubSeq(s, k + 1, Len(s)))
         IN IF CharClass(s[1]) = "sep" THEN rest
            ELSE <<SubSeq(s, 1, k)>> \o rest

\* re.split(r'[a-zA-Z]+|[0-9]+', string): the strings around the segments.
RECURSIVE split_segments(_)
split_segments(s) ==
    IF s = <<>> THEN << <<>> >>
    ELSE LET k == RunLen(s)
             rest == split_segments(SubSeq(s, k + 1, Len(s)))
         IN IF CharClass(s[1]) = "sep"
            THEN <<SubSeq(s, 1, k) \o rest[1]>> \o Tail(rest)
            ELSE << <<>> >> \o rest

\* Version.__init__
Version__init__(string) ==
    IF string = <<>> \/ string[1] \notin VALID_VERSION
    THEN Raise("ValueError")
    ELSE LET str == Strip(string)
             segments == findall_segments(str)
         IN [type |-> "Version",
             string |-> str,
             version |-> [i \in DOMAIN segments |-> int_if_int(segments[i])],
             separators |-> Tail(split_segments(str))]

\* bool(x): None is false, a Version is true iff it has segments (__len__),
\* a VersionRange is always true, a VersionList iff it has elements.
Truthy(x) ==
    CASE x.type = "None" -> FALSE
      [] x.type = "Version" -> Len(x.version) > 0
      [] x.type = "VersionList" -> Len(x.versions) > 0
      [] OTHER -> TRUE

\* tuple slice t[:n] for n >= 0
Prefix(t, n) == SubSeq(t, 1, IF n < Len(t) THEN n ELSE Len(t))

IsInfinity(seg) == ~seg.isint /\ seg.s \in Range(infinity_versions)

\* infinity_versions.index(seg)
InfinityIndex(seg) ==
    (CHOOSE i \in DOMAIN infinity_versions : infinity_versions[i] = seg.s) - 1

\* The body of the loop of Version.__lt__ on the first unequal pair (a, b).
SegmentLtMutant(a, b) ==
    IF IsInfinity(a)
    THEN (IF IsInfinity(b) THEN InfinityIndex(a) < InfinityIndex(b) ELSE FALSE)
    ELSE IF IsInfinity(b) THEN TRUE
    ELSE IF a.isint # b.isint THEN b.isint
    ELSE IF a.isint THEN a.n < b.n ELSE StrLess(a.s, b.s)

SegmentLt(a, b) ==
    IF IsInfinity(a)
    THEN (IF IsInfinity(b) THEN InfinityIndex(a) > InfinityIndex(b) ELSE FALSE)
    ELSE IF IsInfinity(b) THEN TRUE
    ELSE IF a.isint # b.isint THEN b.isint
    ELSE IF a.isint THEN a.n < b.n ELSE StrLess(a.s, b.s)

\* Version.__lt__ (both operands Versions, or other None)
Version__lt__Mutant(self, other) ==
    IF other = None THEN FALSE
    ELSE IF self.version = other.version THEN FALSE
    ELSE LET n == IF Len(self.version) < Len(other.version)
                  THEN Len(self.version) ELSE Len(other.version)
             diff == {i \in 1..n : self.version[i] # other.version[i]}
         IN IF diff = {} THEN Len(self.version) > Len(other.version)
            ELSE LET i == CHOOSE j \in diff : \A k \in diff : j <= k
                 IN SegmentLt(self.version[i], other.version[i])

Version__lt__(self, other) ==
    IF other = None THEN FALSE
    ELSE IF self.version = other.version THEN FALSE
    ELSE LET n == IF Len(self.version) < Len(other.version)
                  THEN Len(self.version) ELSE Len(other.version)
             diff == {i \in 1..n : self.version[i] # other.version[i]}
         IN IF diff = {} THEN Len(self.version) < Len(other.version)
            ELSE LET i == CHOOSE j \in diff : \A k \in diff : j <= k
                 IN SegmentLt(self.version[i], other.version[i])

\* Version.__eq__ ; None == None is Python's identity test.
Version__eq__(self, other) ==
    IF self = None THEN other = None
    ELSE other # None /\ other.type = "Version" /\ self.version = other.version

Version__ne__(self, other) == ~Version__eq__(self, other)

Version__le__(self, other) == Version__eq__(self, other) \/ Version__lt__(self, other)

Version__ge__(self, other) == ~Version__lt__(self, other)

Version__gt__(self, other) ==
    ~Version__eq__(self, other) /\ ~Version__lt__(self, other)

\* Version.__contains__: `other in self`
Version__contains__(self, other) ==
    IF other = None THEN FALSE
    ELSE Prefix(other.version, Len(self.version)) = self.version

\* Version.satisfies
Version_satisfiesMutant(self, other) ==
    LET nself == Len(self.version)
        nother == Len(other.version)
    IN nself <= nother /\ Prefix(other.version, nself) = self.version

Version_satisfies(self, other) ==
    LET nself == Len(self.version)
        nother == Len(other.version)
    IN nother <= nself /\ Prefix(self.version, nother) = other.version

\* Version.is_predecessor
Version_is_predecessor(self, other) ==
    IF Len(self.version) # Len(other.version) THEN FALSE
    ELSE LET sl == self.version[Len(self.version)]
             ol == other.version[Len(other.version)]
         IN sl.isint /\ ol.isint /\ ol.n - sl.n = 1

\* Version.overlaps (both Versions)
Version_overlaps(self, other) ==
    Version__contains__(other, self) \/ Version__contains__(self, other)

\* Version.concrete
Version_concrete(self) == self

\* ------------------------------------------------------------------------
\* _VersionEndpoint
\* ------------------------------------------------------------------------

\* _VersionEndpoint.__init__ ; its assertion (value None => includes_endpoint)
\* is the one VersionRange.__init__ has already made.
VersionEndpoint(value, location, includes_endpoint) ==
    [value |-> value, location |-> location, includes_endpoint |-> includes_endpoint]

\* _VersionEndpoint.__eq__
VersionEndpoint__eq__(self, other) ==
    /\ Version__eq__(self.value, other.value)
    /\ self.location = other.location
    /\ self.includes_endpoint = other.includes_endpoint

\* _VersionEndpoint.__lt__ (same location, by @_endpoint_only)
VersionEndpoint__lt__(s, o) ==
    IF Version__eq__(s.value, o.value)
    THEN (IF s.includes_endpoint # o.includes_endpoint
          THEN s.includes_endpoint
          ELSE FALSE)
    ELSE LET infinite_left_wins == (s.location = "left")
         IN IF s.value = None THEN infinite_left_wins
            ELSE IF o.value = None THEN ~infinite_left_wins
            ELSE Version__lt__(s.value, o.value)

VersionEndpoint__le__(s, o) ==
    VersionEndpoint__eq__(s, o) \/ VersionEndpoint__lt__(s, o)

VersionEndpoint__ge__(s, o) == ~VersionEndpoint__lt__(s, o)

\* ------------------------------------------------------------------------
\* VersionRange
\* ------------------------------------------------------------------------

\* The object while __init__ runs: start and end are set, the flags are not.
PartialRange(start, end) == [type |-> "VersionRange", start |-> start, end |-> end]

HasFlags(self) == "includes_left_endpoint" \in DOMAIN self

\* VersionRange.__str__ ; reading a flag that is not set yet raises
\* AttributeError, a failed assert AssertionError.
VersionRange__str__(self) ==
    IF Version__eq__(self.start, self.end)
    THEN (IF self.start = None THEN PyStr(<<":">>)
          ELSE IF ~HasFlags(self) THEN Raise("AttributeError")
          ELSE IF self.includes_left_endpoint # self.includes_right_endpoint
               THEN Raise("AssertionError")
          ELSE IF self.includes_left_endpoint THEN PyStr(self.start.string)
          ELSE PyStr(<<":", "!">> \o self.start.string \o <<"!", ":">>))
    ELSE IF self.start = None
    THEN (IF ~HasFlags(self) THEN Raise("AttributeError")
          ELSE IF ~self.includes_left_endpoint THEN Raise("AssertionError")
          ELSE IF self.includes_right_endpoint THEN PyStr(<<":">> \o self.end.string)
          ELSE PyStr(<<":", "!">> \o self.end.string))
    ELSE IF self.end = None
    THEN (IF ~HasFlags(self) THEN Raise("AttributeError")
          ELSE IF ~self.includes_right_endpoint THEN Raise("AssertionError")
          ELSE IF self.includes_left_endpoint THEN PyStr(self.start.string \o <<":">>)
          ELSE PyStr(self.start.string \o <<"!", ":">>))
    ELSE IF ~HasFlags(self) THEN Raise("AttributeError")
    ELSE IF ~self.includes_left_endpoint /\ ~self.includes_right_endpoint
         THEN PyStr(self.start.string \o <<"!", ":", "!">> \o self.end.string)
    ELSE IF ~self.includes_right_endpoint
         THEN PyStr(self.start.string \o <<":", "!">> \o self.end.string)
    ELSE IF ~self.includes_left_endpoint
         THEN PyStr(self.start.string \o <<"!", ":">> \o self.end.string)
    ELSE PyStr(self.start.string \o <<":">> \o self.end.string)

\* raise ValueError(msg): what formatting msg raised, else the ValueError
RaiseValueError(msg) == IF IsError(msg) THEN msg ELSE Raise("ValueError")

\* VersionRange.__init__ (start and end already Versions or None).  The
\* message of the ValueError is formatted with str(self) before the flags
\* are assigned, so what is raised is whatever __str__ raises, else ValueError.
VersionRange__init__(start, end, includes_left_endpoint, includes_right_endpoint) ==
    IF Truthy(start) /\ Truthy(end) /\ Version__lt__(end, start)
    THEN RaiseValueError(VersionRange__str__(PartialRange(start, end)))
    ELSE IF start = None /\ ~includes_left_endpoint THEN Raise("AssertionError")
    ELSE IF end = None /\ ~includes_right_endpoint THEN Raise("AssertionError")
    ELSE [type |-> "VersionRange", start |-> start, end |-> end,
          includes_left_endpoint |-> includes_left_endpoint,
          includes_right_endpoint |-> includes_right_endpoint]

\* VersionRange.lowest / highest
VersionRange_lowest(self) == self.start

VersionRange_highest(self) == self.end

VersionRange_low_endpoint(self) ==
    VersionEndpoint(VersionRange_lowest(self), "left", self.includes_left_endpoint)

VersionRange_high_endpoint(self) ==
    VersionEndpoint(VersionRange_highest(self), "right", self.includes_right_endpoint)

\* VersionRange.__lt__
VersionRange__lt__(self, other) ==
    IF other = None THEN FALSE
    ELSE IF VersionEndpoint__lt__(VersionRange_low_endpoint(self),
                                  VersionRange_low_endpoint(other))
         THEN TRUE
    ELSE VersionEndpoint__lt__(VersionRange_high_endpoint(self),
                               VersionRange_high_endpoint(other))

\* VersionRange.__eq__
VersionRange__eq__(self, other) ==
    /\ other # None
    /\ other.type = "VersionRange"
    /\ Version__eq__(self.start, other.start)
    /\ Version__eq__(self.end, other.end)
    /\ self.includes_left_endpoint = other.includes_left_endpoint
    /\ self.includes_right_endpoint = other.includes_right_endpoint

\* VersionRange.concrete
VersionRange_concrete(self) ==
    IF Version__ne__(self.start, self.end) THEN None
    ELSE IF self.start = None THEN None
    ELSE IF self.includes_left_endpoint \/ self.includes_right_endpoint
         THEN (IF self.includes_left_endpoint # self.includes_right_endpoint
               THEN Raise("AssertionError")
               ELSE self.start)
    ELSE None

\* VersionRange.__contains__ : `other in self`.  Python reads
\* `x == y and not a or b` as `((x == y) and (not a)) or b`.
VersionRange__contains__(self, other) ==
    IF other = None THEN FALSE
    ELSE LET in_lower ==
                 \/ ((Version__eq__(self.start, other.start)
                      /\ ~self.includes_left_endpoint)
                     \/ other.includes_left_endpoint)
                 \/ self.start = None
                 \/ (other.start # None
                     /\ (Version__lt__(self.start, other.start)
                         \/ Version__contains__(self.start, other.start)))
             in_upper ==
                 \/ ((Version__eq__(self.end, other.end)
                      /\ ~self.includes_right_endpoint)
                     \/ other.includes_right_endpoint)
                 \/ self.end = None
                 \/ (other.end # None
                     /\ (Version__gt__(self.end, other.end)
                         \/ Version__contains__(self.end, other.end)))
         IN IF ~in_lower THEN FALSE ELSE in_upper

\* VersionRange.overlaps
VersionRange_overlaps(self, other) ==
    /\ \/ self.start = None
       \/ other.end = None
       \/ Version__le__(self.start, other.end)
       \/ Version__contains__(self.start, other.end)
       \/ Version__contains__(other.end, self.start)
    /\ \/ other.start = None
       \/ self.end = None
       \/ Version__le__(other.start, self.end)
       \/ Version__contains__(self.end, other.start)
       \/ Version__contains__(other.start, self.end)

\* VersionRange.satisfies
VersionRange_satisfies(self, other) ==
    \/ VersionRange_overlaps(self, other)
    \/ (Truthy(self.start) /\ Truthy(other.end)
        /\ Version_satisfies(self.start, other.end))

\* VersionRange.intersection
VersionList_empty == [type |-> "VersionList", versions |-> <<>>]

VersionRange_intersection(self, other) ==
    IF VersionRange_overlaps(self, other)
    THEN LET start ==
                 IF self.start = None THEN other.start
                 ELSE IF other.start # None
                         /\ (Version__gt__(other.start, self.start)
                             \/ Version__contains__(self.start, other.start))
                      THEN other.start
                 ELSE self.start
             end ==
                 IF self.end = None THEN other.end
                 ELSE IF other.end # None
                         /\ ~Version__contains__(other.end, self.end)
                         /\ (Version__lt__(other.end, self.end)
                             \/ Version__contains__(self.end, other.end))
                      THEN other.end
                 ELSE self.end
         IN VersionRange__init__(start, end, TRUE, TRUE)
    ELSE VersionList_empty

\* ------------------------------------------------------------------------
\* VersionList, the coercing dispatch, star expansion and ver()
\* ------------------------------------------------------------------------

\* coerce_versions on a Version and a VersionRange: the Version b becomes
\* VersionRange(b, b).
AsRange(x) ==
    IF x.type = "Version" THEN VersionRange__init__(x, x, TRUE, TRUE) ELSE x

\* @coerced __lt__ on Versions and VersionRanges
lt(a, b) ==
    IF a.type = "Version" /\ b.type = "Version" THEN Version__lt__(a, b)
    ELSE VersionRange__lt__(AsRange(a), AsRange(b))

\* @coerced overlaps on Versions and VersionRanges
overlaps(a, b) ==
    IF a.type = "Version" /\ b.type = "Version" THEN Version_overlaps(a, b)
    ELSE VersionRange_overlaps(AsRange(a), AsRange(b))

\* VersionRange.union, the part reached when the ranges overlap
VersionRange_union_overlapping(self, other) ==
    LET start ==
            IF self.start = None \/ other.start = None THEN None
            ELSE IF Version__contains__(other.start, self.start)
                    \/ Version__lt__(other.start, self.start)
                 THEN other.start
            ELSE self.start
        end ==
            IF self.end = None \/ other.end = None THEN None
            ELSE IF ~Version__contains__(self.end, other.end)
                    /\ (Version__contains__(other.end, self.end)
                        \/ Version__gt__(other.end, self.end))
                 THEN other.end
            ELSE self.end
    IN VersionRange__init__(start, end, TRUE, TRUE)

\* Version.union, the branches reached when the Versions overlap (one is
\* in the other)
Version_union_overlapping(self, other) ==
    IF Version__eq__(self, other) \/ Version__contains__(self, other) THEN self
    ELSE other

\* @coerced union as VersionList.add calls it: on a version and an element
\* that overlap
union_overlapping(a, b) ==
    IF a.type = "Version" /\ b.type = "Version" THEN Version_union_overlapping(a, b)
    ELSE VersionRange_union_overlapping(AsRange(a), AsRange(b))

\* concrete of a Version or a VersionRange
concrete(x) ==
    IF x.type = "Version" THEN Version_concrete(x) ELSE VersionRange_concrete(x)

\* bisect_left(self, version, lo, hi); indexes are Python's (from 0).
RECURSIVE bisect_left(_, _, _, _)
RECURSIVE bisect_leftMutant(_, _, _, _)
bisect_leftMutant(a, x, lo, hi) ==
    IF lo < hi
    THEN LET mid == (lo + hi) \div 2
         IN IF lt(x, a[mid + 1])
            THEN bisect_leftMutant(a, x, mid + 1, hi)
            ELSE bisect_leftMutant(a, x, lo, mid)
    ELSE lo

bisect_left(a, x, lo, hi) ==
    IF lo < hi
    THEN LET mid == (lo + hi) \div 2
         IN IF lt(a[mid + 1], x)
            THEN bisect_left(a, x, mid + 1, hi)
            ELSE bisect_left(a, x, lo, mid)
    ELSE lo

\* del a[i] and a.insert(i, x), i counted from 0
DelAt(a, i) == SubSeq(a, 1, i) \o SubSeq(a, i + 2, Len(a))

InsertAt(a, i, x) == SubSeq(a, 1, i) \o <<x>> \o SubSeq(a, i + 1, Len(a))

\* The state of VersionList.add between steps: the list, the version being
\* inserted, the index, and the exception raised (None if none).
AddState(vs, version, i, raised) ==
    [versions |-> vs, version |-> version, i |-> i, raised |-> raised]

\* First loop of add: merge with the overlapping elements before index i.
RECURSIVE add_backward(_, _, _)
add_backwardMutant(vs, version, i) == AddState(vs, version, i, None)

add_backward(vs, version, i) ==
    IF i - 1 >= 0 /\ overlaps(version, vs[i])
    THEN LET u == union_overlapping(version, vs[i])
         IN IF IsError(u) THEN AddState(vs, version, i, u)
            ELSE add_backward(DelAt(vs, i - 1), u, i - 1)
    ELSE AddState(vs, version, i, None)

\* Second loop of add: merge with the overlapping elements from index i on.
RECURSIVE add_forward(_, _, _)
add_forwardMutant(vs, version, i) == AddState(vs, version, i, None)

add_forward(vs, version, i) ==
    IF i < Len(vs) /\ overlaps(version, vs[i + 1])
    THEN LET u == union_overlapping(version, vs[i + 1])
         IN IF IsError(u) THEN AddState(vs, version, i, u)
            ELSE add_forward(DelAt(vs, i), u, i)
    ELSE AddState(vs, version, i, None)

\* VersionList.add, its end: the insert, unless the second loop raised
add_insert(f) ==
    IF f.raised # None THEN [versions |-> f.versions, raised |-> f.raised]
    ELSE [versions |-> InsertAt(f.versions, f.i, f.version), raised |-> None]

\* VersionList.add after its first loop: the second loop, then the insert
add_after_backward(b) ==
    IF b.raised # None THEN [versions |-> b.versions, raised |-> b.raised]
    ELSE add_insert(add_forward(b.versions, b.version, b.i))

\* VersionList.add from the bisect on
add_bisect(vs, version) ==
    add_after_backward(add_backward(vs, version, bisect_left(vs, version, 0, Len(vs))))

\* VersionList.add once version.concrete is evaluated to c
add_concrete(vs, version, c) ==
    IF IsError(c) THEN [versions |-> vs, raised |-> c]
    ELSE add_bisect(vs, IF Truthy(c) THEN c ELSE version)

\* VersionList.add for a Version or VersionRange argument: the list after the
\* call and the exception it raised (None if none).
VersionList_add(vs, version) == add_concrete(vs, version, concrete(version))

\* VersionList.add for a VersionList argument: add each of its elements,
\* from the list r.versions on, until one raises.
RECURSIVE add_all_from(_, _)
add_all_from(r, elems) ==
    IF r.raised # None \/ elems = <<>> THEN r
    ELSE add_all_from(VersionList_add(r.versions, elems[1]), Tail(elems))

VersionList_add_all(vs, elems) ==
    add_all_from([versions |-> vs, raised |-> None], elems)

\* The VersionList object a constructor leaves, or the exception it raised
ListOrError(r) ==
    IF r.raised # None THEN r.raised
    ELSE [type |-> "VersionList", versions |-> r.versions]

\* Version.dotted
Version_dotted(self) ==
    Version__init__(ReplaceChar(ReplaceChar(self.string, "-", <<".">>), "_", <<".">>))

\* VersionRange.has_star_component
has_star_component(obj) ==
    IF ~Truthy(obj) THEN FALSE
    ELSE LET seps == Version_dotted(obj).separators
         IN \E i \in DOMAIN seps :
                Len(seps[i]) >= 2 /\ seps[i][1] = "." /\ seps[i][2] = "*"

\* re.sub(r'^.\*', '', s): a leading (any character, then '*') is removed.
sub_leading_starMutant(s) == s

sub_leading_star(s) ==
    IF Len(s) >= 2 /\ s[2] = "*" THEN SubSeq(s, 3, Len(s)) ELSE s

\* ''.join(str(k) + str(v) for k, v in zip(components, seps))
RECURSIVE join_zip(_, _)
join_zip(components, seps) ==
    IF components = <<>> \/ seps = <<>> THEN <<>>
    ELSE StrOfSeg(components[1]) \o seps[1] \o join_zip(Tail(components), Tail(seps))

\* check_for_star_components, its end, once low_ver and high_ver are built.
\* VersionList([low_side, high_side]) adds the two VersionRanges as they
\* are: ver() returns a VersionRange unchanged.
star_range(low_ver, high_ver, includes_left_endpoint) ==
    IF IsError(low_ver) THEN low_ver
    ELSE IF IsError(high_ver) THEN high_ver
    ELSE IF ~includes_left_endpoint
    THEN ListOrError(VersionList_add_all(<<>>,
             <<VersionRange__init__(None, low_ver, TRUE, FALSE),
               VersionRange__init__(high_ver, None, TRUE, TRUE)>>))
    ELSE VersionRange__init__(low_ver, high_ver, TRUE, FALSE)

\* check_for_star_components from high_end[-1] += 1 on
star_high_end(low_end, fixed_seps, suffix, includes_left_endpoint) ==
    IF low_end = <<>> THEN Raise("IndexError")
    ELSE IF ~low_end[Len(low_end)].isint THEN Raise("TypeError")
    ELSE star_range(
             Version__init__(join_zip(low_end, fixed_seps) \o suffix),
             Version__init__(join_zip([low_end EXCEPT ![Len(low_end)] =
                                           IntSeg(low_end[Len(low_end)].n + 1)],
                                      fixed_seps) \o suffix),
             includes_left_endpoint)

\* check_for_star_components for start == end with a star component
star_expansion(start, includes_left_endpoint) ==
    LET components == start.version
        has_suffix == ~components[Len(components)].isint
    IN star_high_end(
           IF has_suffix THEN SubSeq(components, 1, Len(components) - 1)
           ELSE components,
           [i \in DOMAIN start.separators |-> sub_leading_star(start.separators[i])],
           IF has_suffix THEN components[Len(components)].s ELSE <<>>,
           includes_left_endpoint)

\* check_for_star_components once would_be_range is constructed
star_check(start, end, includes_left_endpoint, includes_right_endpoint, would_be_range) ==
    IF IsError(would_be_range) THEN would_be_range
    ELSE IF Version__ne__(start, end)
    THEN (IF SelectSeq(<<start, end>>, has_star_component) # <<>>
          THEN RaiseValueError(VersionRange__str__(would_be_range))
          ELSE would_be_range)
    ELSE IF includes_left_endpoint # includes_right_endpoint
         THEN Raise("AssertionError")
    ELSE IF Len(SelectSeq(<<start, end>>, has_star_component)) = 0
         THEN would_be_range
    ELSE star_expansion(start, includes_left_endpoint)

\* VersionRange.check_for_star_components (start, end Versions or None,
\* description None)
check_for_star_components(start, end, includes_left_endpoint, includes_right_endpoint) ==
    star_check(start, end, includes_left_endpoint, includes_right_endpoint,
               VersionRange__init__(start, end, includes_left_endpoint,
                                    includes_right_endpoint))

\* ver(obj) for an obj that is already a Version, VersionRange or VersionList
ver_typed(obj) ==
    IF obj.type \in {"Version", "VersionRange", "VersionList"}
    THEN (IF obj.type = "Version" /\ has_star_component(obj)
          THEN check_for_star_components(obj, obj, TRUE, TRUE)
          ELSE obj)
    ELSE Raise("TypeError")

\* self.add(v) for what ver() returned: a Version, a VersionRange, a
\* VersionList, or the exception ver() raised
add_ver(vs, v) ==
    IF IsError(v) THEN [versions |-> vs, raised |-> v]
    ELSE IF v.type = "VersionList" THEN VersionList_add_all(vs, v.versions)
    ELSE VersionList_add(vs, v)

\* VersionList.__init__(vlist) for a list of typed values: add(ver(v)) for
\* each, from the list r.versions on, until one raises
RECURSIVE VersionList_add_each(_, _)
VersionList_add_each(r, vlist) ==
    IF r.raised # None \/ vlist = <<>> THEN r
    ELSE VersionList_add_each(add_ver(r.versions, ver_typed(vlist[1])), Tail(vlist))

\* VersionList(vlist): the object, or the exception that left none
VersionList__init__(vlist) ==
    ListOrError(VersionList_add_each([versions |-> <<>>, raised |-> None], vlist))

\* Version.union (both Versions)
Version_union(self, other) ==
    IF Version__eq__(self, other) \/ Version__contains__(self, other)
       \/ Version__contains__(other, self)
    THEN Version_union_overlapping(self, other)
    ELSE VersionList__init__(<<self, other>>)

\* VersionRange.union
VersionRange_union(self, other) ==
    IF ~VersionRange_overlaps(self, other)
    THEN (IF self.end # None /\ other.start # None
             /\ Version_is_predecessor(self.end, other.start)
          THEN VersionRange__init__(self.start, other.end, TRUE, TRUE)
          ELSE IF other.end # None /\ self.start # None
                  /\ Version_is_predecessor(other.end, self.start)
          THEN VersionRange__init__(other.start, self.end, TRUE, TRUE)
          ELSE VersionList__init__(<<self, other>>))
    ELSE VersionRange_union_overlapping(self, other)

\* @coerced union on Versions and VersionRanges
union(a, b) ==
    IF a.type = "Version" /\ b.type = "Version" THEN Version_union(a, b)
    ELSE VersionRange_union(AsRange(a), AsRange(b))

\* str.split(sep) for a one-character sep
RECURSIVE Split(_, _)
Split(s, sep) ==
    IF \A i \in DOMAIN s : s[i] # sep THEN <<s>>
    ELSE LET k == CHOOSE i \in DOMAIN s :
                      s[i] = sep /\ \A j \in 1..(i - 1) : s[j] # sep
         IN <<SubSeq(s, 1, k - 1)>> \o Split(SubSeq(s, k + 1, Len(s)), sep)

\* VersionRange(start, end) for the two Versions built from the strings
range_of(start, end) ==
    IF IsError(start) THEN start
    ELSE IF IsError(end) THEN end
    ELSE VersionRange__init__(start, end, TRUE, TRUE)

\* Version(s) if s else None
version_or_none(s) == IF s # <<>> THEN Version__init__(s) ELSE None

\* start, end = string.split(':'), then the VersionRange
range_of_parts(parts) ==
    IF Len(parts) # 2 THEN Raise("ValueError")
    ELSE range_of(version_or_none(parts[1]), version_or_none(parts[2]))

\* _string_to_version for a string without ',': a range or a version
string_to_version_plain(string) ==
    IF \E i \in DOMAIN string : string[i] = ":"
    THEN range_of_parts(Split(string, ":"))
    ELSE Version__init__(string)

\* ver(obj), once the string obj is parsed to v
ver_parsed(v) == IF IsError(v) THEN v ELSE ver_typed(v)

\* ver(obj) for one of the strings string.split(',') yields
ver_plain(obj) == ver_parsed(string_to_version_plain(ReplaceChar(obj, " ", <<>>)))

\* VersionList.__init__(vlist) for the list string.split(',') of strings:
\* add(ver(v)) for each, from the list r.versions on, until one raises
RECURSIVE VersionList_add_each_str(_, _)
VersionList_add_each_str(r, vlist) ==
    IF r.raised # None \/ vlist = <<>> THEN r
    ELSE VersionList_add_each_str(add_ver(r.versions, ver_plain(vlist[1])), Tail(vlist))

\* _string_to_version, once the blanks are removed
string_to_version_stripped(string) ==
    IF \E i \in DOMAIN string : string[i] = ","
    THEN ListOrError(VersionList_add_each_str([versions |-> <<>>, raised |-> None],
                                              Split(string, ",")))
    ELSE string_to_version_plain(string)

\* _string_to_version
string_to_version(string) == string_to_version_stripped(ReplaceChar(string, " ", <<>>))

\* ver(obj) for a string obj
ver(obj) == ver_parsed(string_to_version(obj))

\* ------------------------------------------------------------------------
\* The state machines
\* ------------------------------------------------------------------------

\* Number of version strings of ListPool the list operations draw from.
MaxListVersions == 4

\* The version strings the list and range operations are exercised on.
ListPool ==
    << <<"1", ".", "5">>, <<"1", ".", "6">>, <<"1">>, <<"2">>,
       <<"2", ".", "0">>, <<"1", ".", "0">>, <<"3">> >>

ListVersions == {Version__init__(ListPool[i]) : i \in 1..MaxListVersions}

Bounds == ListVersions \cup {None}

\* The VersionRanges that can be constructed over ListVersions, without the
\* one-point ranges that exclude an endpoint (the empty set, which the
\* interface does not admit).
ListRanges ==
    {r \in {VersionRange__init__(s, e, l, h) :
                s \in Bounds, e \in Bounds, l \in BOOLEAN, h \in BOOLEAN} :
        /\ ~IsError(r)
        /\ (r.start # None /\ Version__eq__(r.start, r.end))
               => (r.includes_left_endpoint /\ r.includes_right_endpoint)}

Elements == ListVersions \cup ListRanges

VARIABLES
    versions,   \* VersionList.versions of the list under construction
    raised,     \* the exception the last call raised, None if none
    absorbed,   \* how many elements the last add deleted from the list
    op,         \* the operation last applied to args
    args,       \* the operands of the pure operations
    result      \* what the operation returned

vars == <<versions, raised, absorbed, op, args, result>>

\* A new VersionList(): no elements.
Init ==
    /\ versions = <<>>
    /\ raised = None
    /\ absorbed = 0
    /\ op = "none"
    /\ args = <<>>
    /\ result = None

\* The list, and what the call reported, after an add that returned r
Added(r) ==
    /\ versions' = r.versions
    /\ raised' = r.raised
    /\ absorbed' = IF r.raised = None
                   THEN Len(versions) + 1 - Len(r.versions)
                   ELSE Len(versions) - Len(r.versions)

\* self.add(version) for a Version or VersionRange
Add(version) ==
    /\ raised = None
    /\ Added(VersionList_add(versions, version))
    /\ UNCHANGED <<op, args, result>>

Next == \E version \in Elements : Add(version)

Spec == Init /\ [][Next]_vars

\* ------------------------------------------------------------------------
\* Properties of VersionList.add
\* ------------------------------------------------------------------------

\* C1: after any sequence of add calls on an initially empty list the
\* elements are sorted: each element is < the next one under the (coerced)
\* element ordering, and the next one is never < it.
C1_Sorted ==
    \A i \in 1..(Len(versions) - 1) :
        lt(versions[i], versions[i + 1]) /\ ~lt(versions[i + 1], versions[i])

\* A list of three elements whose last add merged the new element with one
\* already stored.
C1_Witness == Len(versions) = 3 /\ absorbed = 1

\* C2: after any sequence of add calls the list is disjoint: no two distinct
\* elements, adjacent or not, overlap under the element-level overlaps.
C2_Disjoint ==
    \A i \in DOMAIN versions : \A j \in DOMAIN versions :
        i # j => ~overlaps(versions[i], versions[j])

\* An add that absorbed two stored elements and left two in the list.
C2_Witness == Len(versions) = 2 /\ absorbed = 2

\* C3: after any sequence of add calls the list is compacted: no adjacent
\* pair of elements has a union that is a single VersionRange.
C3_Compacted ==
    \A i \in 1..(Len(versions) - 1) :
        union(versions[i], versions[i + 1]).type # "VersionRange"

\* ------------------------------------------------------------------------
\* The pure operations of VersionRange
\* ------------------------------------------------------------------------

PyBool(b) == [type |-> "bool", value |-> b]

\* args = <<self, other>>, two VersionRanges
InitRange ==
    /\ versions = <<>>
    /\ raised = None
    /\ absorbed = 0
    /\ op = "none"
    /\ args \in ListRanges \X ListRanges
    /\ result = None

\* other in self
RangeContains ==
    /\ op' = "contains"
    /\ result' = PyBool(VersionRange__contains__(args[1], args[2]))
    /\ UNCHANGED <<versions, raised, absorbed, args>>

\* self.intersection(other)
RangeIntersection ==
    /\ op' = "intersection"
    /\ result' = VersionRange_intersection(args[1], args[2])
    /\ UNCHANGED <<versions, raised, absorbed, args>>

\* self.union(other)
RangeUnion ==
    /\ op' = "union"
    /\ result' = VersionRange_union(args[1], args[2])
    /\ UNCHANGED <<versions, raised, absorbed, args>>

\* self < other and other < self
RangeCompare ==
    /\ op' = "lt"
    /\ result' = [lt_ab |-> VersionRange__lt__(args[1], args[2]),
                  lt_ba |-> VersionRange__lt__(args[2], args[1])]
    /\ UNCHANGED <<versions, raised, absorbed, args>>

\* The comparisons of the two low endpoints and of the two high endpoints
EndpointCompare ==
    /\ op' = "endpoints"
    /\ result' = [low_lt |-> VersionEndpoint__lt__(VersionRange_low_endpoint(args[1]),
                                                   VersionRange_low_endpoint(args[2])),
                  high_lt |-> VersionEndpoint__lt__(VersionRange_high_endpoint(args[1]),
                                                    VersionRange_high_endpoint(args[2]))]
    /\ UNCHANGED <<versions, raised, absorbed, args>>

NextRange ==
    RangeContains \/ RangeIntersection \/ RangeUnion \/ RangeCompare \/ EndpointCompare

SpecRange == InitRange /\ [][NextRange]_vars

\* The greater and the lesser of two endpoints on one side: None is the
\* least Left and the greatest Right value, finite values order as Versions,
\* and of two equal values the closed one reaches further out.
EndpointBelow(p, q) ==
    IF Version__eq__(p.value, q.value)
    THEN (IF p.includes_endpoint = q.includes_endpoint THEN FALSE
          ELSE IF p.location = "left" THEN p.includes_endpoint
          ELSE q.includes_endpoint)
    ELSE IF p.value = None THEN p.location = "left"
    ELSE IF q.value = None THEN p.location = "right"
    ELSE Version__lt__(p.value, q.value)

EndpointMin(p, q) == IF EndpointBelow(q, p) THEN q ELSE p

EndpointMax(p, q) == IF EndpointBelow(p, q) THEN q ELSE p

SameEndpoint(p, q) ==
    Version__eq__(p.value, q.value) /\ p.includes_endpoint = q.includes_endpoint

\* "At or below" and "at or above" for the endpoints of self against those
\* of other, with inclusivity and Version prefix containment.
LowAtOrBelow(self, other) ==
    LET p == VersionRange_low_endpoint(self)
        q == VersionRange_low_endpoint(other)
    IN \/ SameEndpoint(p, q)
       \/ EndpointBelow(p, q)
       \/ (p.value # None /\ q.value # None /\ ~Version__eq__(p.value, q.value)
           /\ Version__contains__(p.value, q.value))

HighAtOrAbove(self, other) ==
    LET p == VersionRange_high_endpoint(self)
        q == VersionRange_high_endpoint(other)
    IN \/ SameEndpoint(p, q)
       \/ EndpointBelow(q, p)
       \/ (p.value # None /\ q.value # None /\ ~Version__eq__(p.value, q.value)
           /\ Version__contains__(p.value, q.value))

\* C4: for VersionRanges self and other, `other in self` is true iff self's
\* low endpoint is at or below other's and self's high endpoint is at or
\* above other's; a range that extends beyond self is not contained in it.
C4_ContainsIffEndpoints ==
    op = "contains" =>
        (result.value <=> (LowAtOrBelow(args[1], args[2])
                           /\ HighAtOrAbove(args[1], args[2])))

\* C5: a.intersection(b) raises nothing and returns, when a overlaps b, the
\* VersionRange from the greater low endpoint to the lesser high endpoint,
\* and otherwise the empty VersionList.
C5_Intersection ==
    op = "intersection" =>
        /\ ~IsError(result)
        /\ IF VersionRange_overlaps(args[1], args[2])
           THEN /\ result.type = "VersionRange"
                /\ SameEndpoint(VersionRange_low_endpoint(result),
                                EndpointMax(VersionRange_low_endpoint(args[1]),
                                            VersionRange_low_endpoint(args[2])))
                /\ SameEndpoint(VersionRange_high_endpoint(result),
                                EndpointMin(VersionRange_high_endpoint(args[1]),
                                            VersionRange_high_endpoint(args[2])))
           ELSE result = VersionList_empty

\* a's end is the predecessor of b's start
Adjacent(a, b) ==
    a.end # None /\ b.start # None /\ Version_is_predecessor(a.end, b.start)

\* C6: a.union(b) is, when a overlaps b, the VersionRange from the lesser low
\* endpoint (value and inclusive flag) to the greater high endpoint; when
\* they do not overlap and one ends at the predecessor of the other's start,
\* the one VersionRange spanning both; otherwise the list of the two.
C6_Union ==
    op = "union" =>
        LET a == args[1]
            b == args[2]
        IN IF VersionRange_overlaps(a, b)
           THEN /\ result.type = "VersionRange"
                /\ SameEndpoint(VersionRange_low_endpoint(result),
                                EndpointMin(VersionRange_low_endpoint(a),
                                            VersionRange_low_endpoint(b)))
                /\ SameEndpoint(VersionRange_high_endpoint(result),
                                EndpointMax(VersionRange_high_endpoint(a),
                                            VersionRange_high_endpoint(b)))
           ELSE IF Adjacent(a, b)
           THEN /\ result.type = "VersionRange"
                /\ SameEndpoint(VersionRange_low_endpoint(result),
                                VersionRange_low_endpoint(a))
                /\ SameEndpoint(VersionRange_high_endpoint(result),
                                VersionRange_high_endpoint(b))
           ELSE IF Adjacent(b, a)
           THEN /\ result.type = "VersionRange"
                /\ SameEndpoint(VersionRange_low_endpoint(result),
                                VersionRange_low_endpoint(b))
                /\ SameEndpoint(VersionRange_high_endpoint(result),
                                VersionRange_high_endpoint(a))
           ELSE /\ result.type = "VersionList"
                /\ Len(result.versions) = 2
                /\ {result.versions[1], result.versions[2]} = {a, b}

\* ------------------------------------------------------------------------
\* The pure operations of Version
\* ------------------------------------------------------------------------

\* Number of version strings of OrderPool the comparisons draw from.
MaxOrderVersions == 8

\* The version strings the Version comparisons are exercised on.
OrderPool ==
    << <<"4", ".", "7">>, <<"4", ".", "7", ".", "3">>,
       <<"d", "e", "v", "e", "l", "o", "p">>, <<"m", "a", "i", "n">>,
       <<"1", ".", "t", "r", "u", "n", "k">>, <<"1", ".", "a", "b">>,
       <<"1", ".", "a">>, <<"1", ".", "2">>,
       <<"a">>, <<"4">>, <<"h", "e", "a", "d">>, <<"1", ".", "m", "a", "i", "n">>,
       <<"1", "-", "2">>, <<"B">>, <<"1", ".", "1", "0">> >>

OrderVersions == {Version__init__(OrderPool[i]) : i \in 1..MaxOrderVersions}

\* args = <<x, y, z>>, three Versions
InitVersion ==
    /\ versions = <<>>
    /\ raised = None
    /\ absorbed = 0
    /\ op = "none"
    /\ args \in OrderVersions \X OrderVersions \X OrderVersions
    /\ result = None

\* The comparisons of x, y and z
VersionCompare ==
    /\ op' = "compare"
    /\ result' = [lt_xy |-> Version__lt__(args[1], args[2]),
                  lt_yx |-> Version__lt__(args[2], args[1]),
                  eq_xy |-> Version__eq__(args[1], args[2]),
                  gt_xy |-> Version__gt__(args[1], args[2]),
                  lt_yz |-> Version__lt__(args[2], args[3]),
                  lt_xz |-> Version__lt__(args[1], args[3])]
    /\ UNCHANGED <<versions, raised, absorbed, args>>

\* x.satisfies(y) and `x in y`
VersionSatisfies ==
    /\ op' = "satisfies"
    /\ result' = [satisfies |-> Version_satisfies(args[1], args[2]),
                  contained |-> Version__contains__(args[2], args[1])]
    /\ UNCHANGED <<versions, raised, absorbed, args>>

\* VersionRange(x, y)
RangeConstruct ==
    /\ op' = "VersionRange"
    /\ result' = VersionRange__init__(args[1], args[2], TRUE, TRUE)
    /\ UNCHANGED <<versions, raised, absorbed, args>>

NextVersion == VersionCompare \/ VersionSatisfies \/ RangeConstruct

SpecVersion == InitVersion /\ [][NextVersion]_vars

\* p is a (possibly equal) prefix of t
IsPrefixOf(p, t) == Len(p) <= Len(t) /\ \A i \in DOMAIN p : p[i] = t[i]

\* C7: < with == is a strict total order on Versions: exactly one of x < y,
\* x == y, y < x holds; x < y and y < z imply x < z; and a Version whose
\* segments are a proper prefix of another's is the lesser of the two.
C7_StrictTotalOrder ==
    op = "compare" =>
        /\ \/ (result.lt_xy /\ ~result.eq_xy /\ ~result.lt_yx)
           \/ (~result.lt_xy /\ result.eq_xy /\ ~result.lt_yx)
           \/ (~result.lt_xy /\ ~result.eq_xy /\ result.lt_yx)
        /\ (result.lt_xy /\ result.lt_yz) => result.lt_xz
        /\ (IsPrefixOf(args[1].version, args[2].version)
            /\ args[1].version # args[2].version) => result.lt_xy

\* x < y < z have been compared, x a proper prefix of y.
C7_Witness ==
    /\ op = "compare"
    /\ result.lt_xy /\ result.lt_yz /\ result.lt_xz
    /\ IsPrefixOf(args[1].version, args[2].version)

\* The first position at which the segments of two Versions differ, 0 if
\* there is none among the paired segments.
FirstDifference(x, y) ==
    LET n == IF Len(x.version) < Len(y.version) THEN Len(x.version) ELSE Len(y.version)
        diff == {i \in 1..n : x.version[i] # y.version[i]}
    IN IF diff = {} THEN 0 ELSE CHOOSE i \in diff : \A k \in diff : i <= k

BothInfinityAtDifference(x, y) ==
    LET i == FirstDifference(x, y)
    IN i > 0 /\ IsInfinity(x.version[i]) /\ IsInfinity(y.version[i])

\* C8 as stated: Versions that first differ at two infinity tokens are
\* ordered by the tokens' index in infinity_versions, the later index being
\* the greater.
C8_LaterIndexGreater ==
    (op = "compare" /\ BothInfinityAtDifference(args[1], args[2])) =>
        LET i == FirstDifference(args[1], args[2])
        IN result.gt_xy <=>
               (InfinityIndex(args[1].version[i]) > InfinityIndex(args[2].version[i]))

\* C8 as amended: Versions that first differ at two infinity tokens are
\* ordered by the tokens' index in infinity_versions, the earlier index being
\* the greater, so that Version('develop') > Version('main').
C8_EarlierIndexGreater ==
    (op = "compare" /\ BothInfinityAtDifference(args[1], args[2])) =>
        LET i == FirstDifference(args[1], args[2])
        IN /\ result.gt_xy <=>
                  (InfinityIndex(args[1].version[i]) < InfinityIndex(args[2].version[i]))
           /\ result.lt_xy <=>
                  (InfinityIndex(args[1].version[i]) > InfinityIndex(args[2].version[i]))

\* develop has been compared with main and found the greater.
C8_Witness ==
    /\ op = "compare"
    /\ args[1].string = <<"d", "e", "v", "e", "l", "o", "p">>
    /\ args[2].string = <<"m", "a", "i", "n">>
    /\ result.gt_xy

\* C9: v.satisfies(w) is true iff w's segments are a (possibly equal) prefix
\* of v's, which is `v in w`; 4.7.3 satisfies 4.7 and 4.7 does not satisfy
\* 4.7.3.
C9_SatisfiesIsPrefix ==
    op = "satisfies" =>
        /\ result.satisfies <=> IsPrefixOf(args[2].version, args[1].version)
        /\ result.satisfies <=> result.contained
        /\ (args[1].string = <<"4", ".", "7", ".", "3">>
            /\ args[2].string = <<"4", ".", "7">>) => result.satisfies
        /\ (args[1].string = <<"4", ".", "7">>
            /\ args[2].string = <<"4", ".", "7", ".", "3">>) => ~result.satisfies

\* 4.7.3 has been found to satisfy 4.7.
C9_Witness ==
    /\ op = "satisfies"
    /\ args[1].string = <<"4", ".", "7", ".", "3">>
    /\ args[2].string = <<"4", ".", "7">>
    /\ result.satisfies

\* ------------------------------------------------------------------------
\* Parsing through ver()
\* ------------------------------------------------------------------------

\* Largest number used as the last component of a parsed version string.
MaxStarNum == 10

\* What precedes the last component: nothing, or components with their
\* separators.
StarPrefixes ==
    { <<>>, <<"1", ".">>, <<"a", ".">>, <<"1", "-">>, <<"1", ".", "2", ".">> }

\* The last component: a number, or a letter.
LastComponents == {StrOfInt(n) : n \in 0..MaxStarNum} \cup { <<"b">> }

StarSuffix == <<".", "*">>

\* The strings handed to ver(): with and without a trailing .*
ParseInputs ==
    {x \o y \o suffix : x \in StarPrefixes, y \in LastComponents,
                        suffix \in { <<>>, StarSuffix }}

\* The version strings that end in .* and those that do not
StarredInputs == {x \o y \o StarSuffix : x \in StarPrefixes, y \in LastComponents}

PlainEnds == { <<"1", ".", "5">>, <<"9">> }

\* Range strings with a starred version as one endpoint, as 1.2.*:1.5
StarRangeInputs ==
    {a \o <<":">> \o b : a \in StarredInputs, b \in PlainEnds}
        \cup {b \o <<":">> \o a : a \in StarredInputs, b \in PlainEnds}

\* Characters outside VALID_VERSION, and version strings with one of them
\* at some position
BadChars == {"!", "+", " ", "/"}

BadCharInputs ==
    UNION {{InsertAt(s, i, c) : i \in 0..Len(s), c \in BadChars} :
               s \in { <<"1", ".", "2">>, <<"a">>, <<>> }}

\* args = <<string>>
InitParse ==
    /\ versions = <<>>
    /\ raised = None
    /\ absorbed = 0
    /\ op = "none"
    /\ args \in {<<s>> : s \in ParseInputs \cup StarRangeInputs \cup BadCharInputs}
    /\ result = None

\* ver(string)
Ver ==
    /\ op' = "ver"
    /\ result' = ver(args[1])
    /\ UNCHANGED <<versions, raised, absorbed, args>>

\* Version(string)
Construct ==
    /\ op' = "Version"
    /\ result' = Version__init__(args[1])
    /\ UNCHANGED <<versions, raised, absorbed, args>>

NextParse == Ver \/ Construct

SpecParse == InitParse /\ [][NextParse]_vars

HasStar(string) == \E i \in DOMAIN string : string[i] = "*"

\* C10: ver() of a string X.Y.* (Y a number) is the VersionRange with the
\* inclusive start X.Y and the exclusive end X.(Y+1); ver('1.2.*') prints as
\* 1.2:!1.3; and no string of the result carries a star.
C10_StarExpansion ==
    \A x \in StarPrefixes : \A n \in 0..MaxStarNum :
        (op = "ver" /\ args[1] = x \o StrOfInt(n) \o StarSuffix) =>
            /\ result.type = "VersionRange"
            /\ result.includes_left_endpoint
            /\ ~result.includes_right_endpoint
            /\ result.start.type = "Version"
            /\ result.end.type = "Version"
            /\ result.start.version = Version__init__(x \o StrOfInt(n)).version
            /\ result.end.version = Version__init__(x \o StrOfInt(n + 1)).version
            /\ ~HasStar(result.start.string)
            /\ ~HasStar(result.end.string)
            /\ VersionRange__str__(result) =
                   PyStr(x \o StrOfInt(n) \o <<":", "!">> \o x \o StrOfInt(n + 1))

\* ver('1.2.*') has returned the range that prints as 1.2:!1.3 .
C10_Witness ==
    /\ op = "ver"
    /\ args[1] = <<"1", ".", "2", ".", "*">>
    /\ result.type = "VersionRange"
    /\ VersionRange__str__(result) = PyStr(<<"1", ".", "2", ":", "!", "1", ".", "3">>)

\* C11: ver() of a range string with a starred version as one endpoint and
\* a different version as the other (as 1.2.*:1.5) raises the ValueError of
\* check_for_star_components and returns no range.
C11_StarRangeRejected ==
    \A a \in StarredInputs : \A b \in PlainEnds :
        (/\ op = "ver"
         /\ args[1] \in {a \o <<":">> \o b, b \o <<":">> \o a}
         /\ Version__ne__(Version__init__(a), Version__init__(b)))
            => result = Raise("ValueError")

\* ------------------------------------------------------------------------
\* Operations on one value: a Version, a VersionRange or a VersionList
\* ------------------------------------------------------------------------

\* Version.__str__
Version__str__(self) == PyStr(self.string)

\* str(v) for an element of a VersionList
element_str(v) ==
    IF v.type = "Version" THEN Version__str__(v) ELSE VersionRange__str__(v)

\* ",".join: one more string in front of the joined rest
join_comma(head, rest, last) ==
    IF IsError(head) THEN head
    ELSE IF IsError(rest) THEN rest
    ELSE PyStr(head.value \o (IF last THEN <<>> ELSE <<",">>) \o rest.value)

\* VersionList.__str__ on the list of elements
RECURSIVE join_versions(_)
join_versions(vs) ==
    IF vs = <<>> THEN PyStr(<<>>)
    ELSE join_comma(element_str(vs[1]), join_versions(Tail(vs)), Len(vs) = 1)

VersionList__str__(self) == join_versions(self.versions)

\* str(x)
tostr(x) ==
    IF x.type = "VersionList" THEN VersionList__str__(x) ELSE element_str(x)

\* @coerced == on two values that are Versions or VersionRanges
element_eq(a, b) ==
    IF a.type = "Version" /\ b.type = "Version" THEN Version__eq__(a, b)
    ELSE VersionRange__eq__(AsRange(a), AsRange(b))

\* VersionList.__eq__: the two lists of elements are equal
VersionList__eq__(self, other) ==
    /\ other # None
    /\ Len(self.versions) = Len(other.versions)
    /\ \A i \in DOMAIN self.versions : element_eq(self.versions[i], other.versions[i])

\* coerce_versions to VersionList
AsList(x) == IF x.type = "VersionList" THEN x ELSE VersionList__init__(<<x>>)

\* @coerced == on Versions, VersionRanges and VersionLists
eq(a, b) ==
    IF a.type # "VersionList" /\ b.type # "VersionList" THEN element_eq(a, b)
    ELSE VersionList__eq__(AsList(a), AsList(b))

\* Version.intersection (both Versions)
Version_intersection(self, other) ==
    IF Version__eq__(self, other) THEN self ELSE VersionList_empty

\* @coerced intersection on Versions and VersionRanges
intersection(a, b) ==
    IF a.type = "Version" /\ b.type = "Version" THEN Version_intersection(a, b)
    ELSE VersionRange_intersection(AsRange(a), AsRange(b))

\* VersionList.update: self.add(v) for each v of other.versions, on the
\* list r.versions, unless building it raised
VersionList_update(r, other) ==
    IF r.raised # None THEN r ELSE VersionList_add_all(r.versions, other.versions)

\* VersionList.union: result = self.copy(); result.update(other)
VersionList_union(self, other) ==
    ListOrError(VersionList_update(
        VersionList_add_each([versions |-> <<>>, raised |-> None], self.versions),
        other))

\* VersionList.intersection, its loops from the pair (s, o) of indexes on:
\* result.add(self[s].intersection(other[o])), result being r.versions
RECURSIVE add_intersections(_, _, _, _, _)
add_intersections(r, self, other, s, o) ==
    IF r.raised # None \/ s > Len(self) THEN r
    ELSE IF o > Len(other) THEN add_intersections(r, self, other, s + 1, 1)
    ELSE add_intersections(add_ver(r.versions, intersection(self[s], other[o])),
                           self, other, s, o + 1)

\* VersionList.intersection
VersionList_intersection(self, other) ==
    ListOrError(add_intersections([versions |-> <<>>, raised |-> None],
                                  self.versions, other.versions, 1, 1))

\* x.union(y) and x.intersection(y), @coerced, on Versions, VersionRanges
\* and VersionLists
coerced_union(a, b) ==
    IF a.type # "VersionList" /\ b.type # "VersionList" THEN union(a, b)
    ELSE VersionList_union(AsList(a), AsList(b))

coerced_intersection(a, b) ==
    IF a.type # "VersionList" /\ b.type # "VersionList" THEN intersection(a, b)
    ELSE VersionList_intersection(AsList(a), AsList(b))

\* ver(s) for the string str() returned, or what str() raised
ver_of(s) == IF IsError(s) THEN s ELSE ver(s.value)

\* The VersionLists of up to two elements of Elements
ListValues ==
    {l \in {VersionList__init__(vlist) :
                vlist \in {<<>>} \cup {<<a>> : a \in Elements} \cup (Elements \X Elements)} :
        ~IsError(l)}

\* The values the one-value operations are applied to
Values == Elements \cup ListValues

\* args = <<x>>, a Version, a VersionRange or a VersionList
InitValue ==
    /\ versions = <<>>
    /\ raised = None
    /\ absorbed = 0
    /\ op = "none"
    /\ args \in {<<x>> : x \in Values}
    /\ result = None

\* ver(str(x))
RoundTrip ==
    /\ op' = "roundtrip"
    /\ result' = ver_of(tostr(args[1]))
    /\ UNCHANGED <<versions, raised, absorbed, args>>

\* x.union(x)
UnionSelf ==
    /\ op' = "union"
    /\ result' = coerced_union(args[1], args[1])
    /\ UNCHANGED <<versions, raised, absorbed, args>>

\* x.intersection(x)
IntersectionSelf ==
    /\ op' = "intersection"
    /\ result' = coerced_intersection(args[1], args[1])
    /\ UNCHANGED <<versions, raised, absorbed, args>>

NextValue == RoundTrip \/ UnionSelf \/ IntersectionSelf

SpecValue == InitValue /\ [][NextValue]_vars

\* ------------------------------------------------------------------------
\* Operations on two VersionLists
\* ------------------------------------------------------------------------

\* list < list on two lists of elements: the first pair of elements that are
\* not == decides by <, and a proper prefix is the lesser
RECURSIVE list_lt(_, _)
list_lt(a, b) ==
    IF a = <<>> THEN b # <<>>
    ELSE IF b = <<>> THEN FALSE
    ELSE IF ~element_eq(a[1], b[1]) THEN lt(a[1], b[1])
    ELSE list_lt(Tail(a), Tail(b))

\* VersionList.__lt__
VersionList__lt__(self, other) ==
    other # None /\ list_lt(self.versions, other.versions)

\* bisect_left(self, other) for a VersionList other: each self[mid] < other
\* coerces the element self[mid] to VersionList([self[mid]])
RECURSIVE bisect_left_list(_, _, _, _)
bisect_left_list(a, x, lo, hi) ==
    IF lo < hi
    THEN IF VersionList__lt__(AsList(a[((lo + hi) \div 2) + 1]), x)
         THEN bisect_left_list(a, x, ((lo + hi) \div 2) + 1, hi)
         ELSE bisect_left_list(a, x, lo, (lo + hi) \div 2)
    ELSE lo

\* @coerced `item in container` on Versions and VersionRanges
contains(container, item) ==
    IF container.type = "Version" /\ item.type = "Version"
    THEN Version__contains__(container, item)
    ELSE VersionRange__contains__(AsRange(container), AsRange(item))

\* VersionList.__contains__, the loop over other, i being bisect_left(self, other)
contains_each(self, other, i) ==
    \A k \in DOMAIN other :
        IF i = 0 THEN contains(self[1], other[k])
        ELSE ~(\A j \in i..Len(self) : ~contains(self[j], other[k]))

\* VersionList.__contains__: other in self
VersionList__contains__(self, other) ==
    IF Len(self.versions) = 0 THEN FALSE
    ELSE contains_each(self.versions, other.versions,
                       bisect_left_list(self.versions, other, 0, Len(self.versions)))

\* VersionList.overlaps, the sweep from the indexes s and o (Python's) on
RECURSIVE overlaps_sweep(_, _, _, _)
RECURSIVE overlaps_sweepMutant(_, _, _, _)
overlaps_sweepMutant(self, other, s, o) ==
    IF s < Len(self) /\ o < Len(other)
    THEN IF overlaps(self[s + 1], other[o + 1]) THEN TRUE
         ELSE IF lt(other[o + 1], self[s + 1])
         THEN overlaps_sweepMutant(self, other, s + 1, o)
         ELSE overlaps_sweepMutant(self, other, s, o + 1)
    ELSE FALSE

overlaps_sweep(self, other, s, o) ==
    IF s < Len(self) /\ o < Len(other)
    THEN IF overlaps(self[s + 1], other[o + 1]) THEN TRUE
         ELSE IF lt(self[s + 1], other[o + 1]) THEN overlaps_sweep(self, other, s + 1, o)
         ELSE overlaps_sweep(self, other, s, o + 1)
    ELSE FALSE

\* VersionList.overlaps
VersionList_overlaps(self, other) ==
    IF ~Truthy(other) \/ ~Truthy(self) THEN FALSE
    ELSE overlaps_sweep(self.versions, other.versions, 0, 0)

\* Number of version strings of SweepPool the two-list operations draw from.
MaxSweepVersions == 3

\* The version strings the elements of the two lists are made of.
SweepPool ==
    << <<"1">>, <<"2">>, <<"3">>, <<"2", ".", "5">>, <<"1", ".", "5">> >>

SweepVersions == {Version__init__(SweepPool[i]) : i \in 1..MaxSweepVersions}

\* The VersionRanges over SweepVersions, as ListRanges are over ListVersions
SweepRanges ==
    {r \in {VersionRange__init__(s, e, l, h) :
                s \in SweepVersions \cup {None}, e \in SweepVersions \cup {None},
                l \in BOOLEAN, h \in BOOLEAN} :
        /\ ~IsError(r)
        /\ (r.start # None /\ Version__eq__(r.start, r.end))
               => (r.includes_left_endpoint /\ r.includes_right_endpoint)}

SweepElements == SweepVersions \cup SweepRanges

\* The VersionLists built from up to two elements
SweepLists ==
    {l \in {VersionList__init__(vlist) :
                vlist \in {<<>>} \cup {<<a>> : a \in SweepElements}
                              \cup (SweepElements \X SweepElements)} :
        ~IsError(l)}

\* args = <<self, other>>, two VersionLists
InitLists ==
    /\ versions = <<>>
    /\ raised = None
    /\ absorbed = 0
    /\ op = "none"
    /\ args \in SweepLists \X SweepLists
    /\ result = None

\* other in self
ListContains ==
    /\ op' = "contains"
    /\ result' = PyBool(VersionList__contains__(args[1], args[2]))
    /\ UNCHANGED <<versions, raised, absorbed, args>>

\* self.overlaps(other) and other.overlaps(self)
ListOverlaps ==
    /\ op' = "overlaps"
    /\ result' = [ab |-> VersionList_overlaps(args[1], args[2]),
                  ba |-> VersionList_overlaps(args[2], args[1])]
    /\ UNCHANGED <<versions, raised, absorbed, args>>

NextLists == ListContains \/ ListOverlaps

SpecLists == InitLists /\ [][NextLists]_vars

\* ------------------------------------------------------------------------
\* Version.is_predecessor
\* ------------------------------------------------------------------------

\* Number of version strings of PredecessorPool the operands are drawn from.
MaxPredecessorVersions == 5

PredecessorPool ==
    << <<"1", ".", "2">>, <<"2", ".", "3">>, <<"2">>, <<"1", ".", "3">>,
       <<"1", ".", "2", ".", "5">>, <<"3">> >>

PredecessorVersions ==
    {Version__init__(PredecessorPool[i]) : i \in 1..MaxPredecessorVersions}

\* args = <<a, b, v>>, three Versions
InitPredecessor ==
    /\ versions = <<>>
    /\ raised = None
    /\ absorbed = 0
    /\ op = "none"
    /\ args \in PredecessorVersions \X PredecessorVersions \X PredecessorVersions
    /\ result = None

\* a.is_predecessor(b)
IsPredecessor ==
    /\ op' = "is_predecessor"
    /\ result' = PyBool(Version_is_predecessor(args[1], args[2]))
    /\ UNCHANGED <<versions, raised, absorbed, args>>

NextPredecessor == IsPredecessor

SpecPredecessor == InitPredecessor /\ [][NextPredecessor]_vars

\* ------------------------------------------------------------------------
\* Adding a collection to an empty VersionList
\* ------------------------------------------------------------------------

\* Number of version strings of InsertionPool the added elements draw from.
MaxInsertionVersions == 2

\* The version strings the added elements are made of.
InsertionPool ==
    << <<"1">>, <<"2">>, <<"2", ".", "5">>, <<"3">> >>

InsertionVersions ==
    {Version__init__(InsertionPool[i]) : i \in 1..MaxInsertionVersions}

\* The VersionRanges over InsertionVersions, as ListRanges are over ListVersions
InsertionRanges ==
    {r \in {VersionRange__init__(s, e, l, h) :
                s \in InsertionVersions \cup {None},
                e \in InsertionVersions \cup {None},
                l \in BOOLEAN, h \in BOOLEAN} :
        /\ ~IsError(r)
        /\ (r.start # None /\ Version__eq__(r.start, r.end))
               => (r.includes_left_endpoint /\ r.includes_right_endpoint)}

InsertionElements == InsertionVersions \cup InsertionRanges

\* args = <<x, y, z>>, the Versions and VersionRanges to add, in this order
InitInsertion ==
    /\ versions = <<>>
    /\ raised = None
    /\ absorbed = 0
    /\ op = "none"
    /\ args \in InsertionElements \X InsertionElements \X InsertionElements
    /\ result = None

\* l = VersionList(); l.add(x); l.add(y); l.add(z)
AddInOrder ==
    /\ op' = "add_in_order"
    /\ result' = ListOrError(VersionList_add_all(<<>>, args))
    /\ UNCHANGED <<versions, raised, absorbed, args>>

NextInsertion == AddInOrder

SpecInsertion == InitInsertion /\ [][NextInsertion]_vars

\* C12: for every constructible value v (Version, VersionRange with any
\* flags and open endpoints, VersionList), ver(str(v)) returns a value equal
\* to v.
C12_RoundTrip ==
    op = "roundtrip" => (~IsError(result) /\ eq(result, args[1]))

\* C13: for every value x (Version, VersionRange with inclusive or exclusive
\* endpoints, VersionList), x.union(x) == x and x.intersection(x) == x.
C13_Idempotent ==
    op \in {"union", "intersection"} => (~IsError(result) /\ eq(result, args[1]))

\* C14: Version(string) of a string that has, at any position, a character
\* outside [A-Za-z0-9._*-] raises ValueError and constructs no Version.
C14_BadCharacterRejected ==
    (op = "Version" /\ \E i \in DOMAIN args[1] : args[1][i] \notin VALID_VERSION)
        => result = Raise("ValueError")

\* C15: VersionRange(start, end) with both endpoints Versions and
\* end < start raises the ValueError 'Invalid Version range', so that no
\* VersionRange with start > end is constructed.
C15_InvalidRangeValueError ==
    (op = "VersionRange" /\ Version__lt__(args[2], args[1]))
        => result = Raise("ValueError")

\* C16: VersionRange.__lt__ is lexicographic on (low endpoint, high
\* endpoint): a < b iff low(a) < low(b), or low(a) == low(b) and
\* high(a) < high(b); and for no pair of ranges do a < b and b < a both hold.
C16_Lexicographic ==
    op = "lt" =>
        /\ result.lt_ab <=>
               (\/ VersionEndpoint__lt__(VersionRange_low_endpoint(args[1]),
                                         VersionRange_low_endpoint(args[2]))
                \/ /\ VersionEndpoint__eq__(VersionRange_low_endpoint(args[1]),
                                            VersionRange_low_endpoint(args[2]))
                   /\ VersionEndpoint__lt__(VersionRange_high_endpoint(args[1]),
                                            VersionRange_high_endpoint(args[2])))
        /\ ~(result.lt_ab /\ result.lt_ba)

\* C20: two endpoints on the same side order as follows: with equal values
\* and different inclusive flags the inclusive one is the lesser on the left
\* and the greater on the right; with exactly one value None, None is the
\* smallest on the left and the largest on the right; otherwise they order
\* as their Version values.
C20_EndpointOrder ==
    op = "endpoints" =>
        /\ result.low_lt = EndpointBelow(VersionRange_low_endpoint(args[1]),
                                         VersionRange_low_endpoint(args[2]))
        /\ result.high_lt = EndpointBelow(VersionRange_high_endpoint(args[1]),
                                          VersionRange_high_endpoint(args[2]))

\* The versions an element x holds include those the element y holds:
\* y's low endpoint is not below x's and y's high endpoint not above x's,
\* where a bound that is a prefix of the other's bound reaches as far.
ElementWithin(y, x) ==
    /\ LowAtOrBelow(AsRange(x), AsRange(y))
    /\ HighAtOrAbove(AsRange(x), AsRange(y))

\* C17: for two VersionLists self and other with elements, `other in self`
\* is true iff every element of other is contained in some element of self.
C17_ListContains ==
    (op = "contains" /\ args[1].versions # <<>> /\ args[2].versions # <<>>) =>
        (result.value <=>
            \A k \in DOMAIN args[2].versions :
                \E j \in DOMAIN args[1].versions :
                    ElementWithin(args[2].versions[k], args[1].versions[j]))

\* C18: for VersionLists a and b built by add, a.overlaps(b) is true iff
\* some element of a overlaps some element of b, and a.overlaps(b) equals
\* b.overlaps(a).
C18_OverlapsSweep ==
    op = "overlaps" =>
        /\ result.ab <=>
               \E i \in DOMAIN args[1].versions : \E j \in DOMAIN args[2].versions :
                   overlaps(args[1].versions[i], args[2].versions[j])
        /\ result.ab <=> result.ba

\* Two lists of two elements whose overlap the sweep found only at the last
\* pair, after it advanced on each list.
C18_Witness ==
    /\ op = "overlaps"
    /\ result.ab
    /\ Len(args[1].versions) = 2
    /\ Len(args[2].versions) = 2
    /\ ~overlaps(args[1].versions[1], args[2].versions[1])
    /\ ~overlaps(args[1].versions[1], args[2].versions[2])
    /\ ~overlaps(args[1].versions[2], args[2].versions[1])
    /\ overlaps(args[1].versions[2], args[2].versions[2])

\* C19: whenever a.is_predecessor(b) is true, there is no Version v with
\* a < v < b that is not in a (not prefixed by a).
C19_PredecessorNoGap ==
    (op = "is_predecessor" /\ result.value) =>
        ~(/\ Version__lt__(args[1], args[3])
          /\ Version__lt__(args[3], args[2])
          /\ ~Version__contains__(args[1], args[3]))

\* The list obtained by adding the elements of args in the order p
AddedInOrder(p) ==
    ListOrError(VersionList_add_all(<<>>, [i \in DOMAIN args |-> args[p[i]]]))

\* b is a VersionList and a == b, by VersionList.__eq__
SameList(a, b) == ~IsError(b) /\ VersionList__eq__(a, b)

\* C21: the VersionList obtained by adding a collection of Versions and
\* VersionRanges one at a time to an empty list has the same sequence of
\* elements whatever the order they are added in.
C21_OrderIndependent ==
    op = "add_in_order" =>
        /\ ~IsError(result)
        /\ \A p \in Permutations(DOMAIN args) : SameList(result, AddedInOrder(p))

\* Two elements that do not overlap were added first, and the third, which
\* overlaps both, merged them into one element.
C21_Witness ==
    /\ op = "add_in_order"
    /\ ~IsError(result)
    /\ Len(result.versions) = 1
    /\ ~overlaps(args[1], args[2])
    /\ overlaps(args[3], args[1])
    /\ overlaps(args[3], args[2])
====
